---- MODULE Spec2Model ----
(***************************************************************************)
(* A model of the pysteps importers (io/importers.py): import_pgm with its *)
(* ASCII header parser, import_aqc with its decode table, and              *)
(* import_bom_rf3 with its netCDF dataset handling.  One importer call is  *)
(* followed statement by statement; its inputs (capability flags, header   *)
(* lines, raster samples, dataset attributes) are drawn from small sets.   *)
(***************************************************************************)
EXTENDS Integers, Sequences, FiniteSets, TLC

\* Bounds of the model.
NumRows == 2
NumCols == 2
MaxLines == 4

VARIABLES
    importer,           \* which import_xxx call is followed
    pc,                 \* position inside the call
    pyproj_imported,    \* module-level capability flags
    pil_imported,
    netcdf4_imported,
    gzipped,            \* import_pgm argument
    open_handles,       \* file / dataset handles opened and not yet closed
    events,             \* file-access events of the call, in order
    result,             \* outcome of the call
    lines,              \* import_pgm: text lines of the file
    pos,                \* import_pgm: number of readline calls made
    l,                  \* import_pgm: the local l of _import_pgm_metadata
    metadata,           \* metadata dictionary
    geodata,            \* geodata dictionary / projection definition
    R,                  \* the field
    B,                  \* import_aqc: palette indices of the image
    lut,                \* import_aqc: the decode table
    dataset,            \* import_bom_rf3: content of the netCDF file
    field_read,         \* import_bom_rf3: the precipitation array as read
    precipitation,      \* locals of _import_bom_rf3_data / _geodata
    valid_time,
    start_time,
    time_step,
    projdef

vars == <<importer, pc, pyproj_imported, pil_imported, netcdf4_imported,
          gzipped, open_handles, events, result, lines, pos, l, metadata,
          geodata, R, B, lut, dataset, field_read, precipitation,
          valid_time, start_time, time_step, projdef>>

pgm_vars == <<gzipped, lines, pos, l>>
aqc_vars == <<B, lut>>
rf3_vars == <<dataset, field_read, precipitation, valid_time, start_time,
              time_step, projdef>>
cap_vars == <<importer, pyproj_imported, pil_imported, netcdf4_imported>>

----------------------------------------------------------------------------
(* Python values.  A local name is unbound, None or bound to a value. *)

Unbound == [tag |-> "unbound", val |-> 0]
None == [tag |-> "None", val |-> 0]
Val(v) == [tag |-> "value", val |-> v]
IsVal(x) == x.tag = "value"

(* Floating point values: NaN, an exact rational num/den, or the AQC      *)
(* rain rate 12 * (10^(num/den / 20) / 316)^(1/1.5), kept as its exponent. *)
RECURSIVE GCD(_, _)
GCD(a, b) == IF b = 0 THEN a ELSE GCD(b, a % b)
Abs(a) == IF a < 0 THEN -a ELSE a

NaN == [kind |-> "nan", num |-> 0, den |-> 1]
Rat(n, d) ==
    LET g == GCD(Abs(n), Abs(d))
        s == IF d < 0 THEN -1 ELSE 1
    IN  [kind |-> "rat", num |-> s * (n \div g), den |-> s * (d \div g)]
IsNaN(x) == x.kind = "nan"

(* A 2-d array is a sequence of rows; Shape is numpy's .shape. *)
Shape(a) == <<Len(a), IF Len(a) = 0 THEN 0 ELSE Len(a[1])>>
MapArray(Op(_), a) == [r \in DOMAIN a |-> [c \in DOMAIN a[r] |-> Op(a[r][c])]]
Arrays(S) == [1..NumRows -> [1..NumCols -> S]]

(* The try/except imports of lines 36-50 set one flag per optional       *)
(* package; the model has all three packages present, or only one.       *)
Capabilities ==
    {c \in BOOLEAN \X BOOLEAN \X BOOLEAN :
        Cardinality({i \in 1..3 : c[i]}) \in {1, 3}}

(* Outcome of the call. *)
Running == [status |-> "running", error |-> "", line |-> 0]
Returned == [status |-> "returned", error |-> "", line |-> 0]
Raised(e, n) == [status |-> "raised", error |-> e, line |-> n]

Event(op, what) == [op |-> op, what |-> what]

----------------------------------------------------------------------------
(* import_bom_rf3 *)

(* Instants (seconds since the epoch) the dataset may hold. *)
Instants == {0, 45, 300, 86700}
PrecipValues == {Rat(0, 1), Rat(5, 1)}
ProjVariables == {"absent", "albers_conical_equal_area", "mercator", "no_grid_mapping_name"}
Absent == [tag |-> "absent", val |-> 0]

Datasets ==
    [has_precipitation : BOOLEAN,
     valid_time : {Absent} \cup {Val(t) : t \in Instants},
     start_time : {Absent} \cup {Val(t) : t \in Instants},
     proj : ProjVariables]


(* str() of a projection attribute, kept symbolic. *)
Str(attr) == "str(" \o attr \o ")"

(* (valid_time - start_time).seconds // 60: timedelta keeps days apart   *)
(* from seconds, and .seconds is the 0..86399 remainder.                 *)
TimeStepMinutes(valid, start) == ((valid - start) % 86400) \div 60

(* A test that lets every timestep through to the division. *)
Truthy_Always(n) == TRUE

(* Truth value of an integer in an if statement. *)
Truthy(n) == n # 0

Mul(x, f) ==
    IF IsNaN(x) \/ IsNaN(f) THEN NaN ELSE Rat(x.num * f.num, x.den * f.den)

Raise(e, n) ==
    /\ result' = Raised(e, n)
    /\ pc' = "exit"

\* lines 252-255
import_bom_rf3 ==
    /\ importer = "rf3" /\ pc = "start"
    /\ IF ~netcdf4_imported
       THEN Raise("Exception: netCDF4 not imported", 253)
       ELSE pc' = "data_open" /\ UNCHANGED result
    /\ UNCHANGED <<cap_vars, pgm_vars, aqc_vars, rf3_vars, open_handles,
                   events, metadata, geodata, R>>

\* lines 263-264
rf3_data_open ==
    /\ importer = "rf3" /\ pc = "data_open"
    /\ events' = Append(events, Event("open", "Dataset"))
    /\ open_handles' = open_handles \cup {"data.ds_rainfall"}
    /\ pc' = "data_precipitation"
    /\ UNCHANGED <<cap_vars, pgm_vars, aqc_vars, rf3_vars, result, metadata,
                   geodata, R>>

\* lines 265-266 and 284-285
rf3_data_precipitation ==
    /\ importer = "rf3" /\ pc = "data_precipitation"
    /\ IF dataset.has_precipitation
       THEN \E a \in Arrays(PrecipValues) :
                /\ field_read' = Val(a)
                /\ precipitation' = Val(a)
                /\ events' = Append(events, Event("read", "precipitation"))
                /\ pc' = "data_valid_time"
       ELSE /\ precipitation' = None
            /\ pc' = "data_close"
            /\ UNCHANGED <<field_read, events>>
    /\ UNCHANGED <<cap_vars, pgm_vars, aqc_vars, dataset, valid_time,
                   start_time, time_step, projdef, open_handles, result,
                   metadata, geodata, R>>

\* lines 268-272
rf3_data_valid_time ==
    /\ importer = "rf3" /\ pc = "data_valid_time"
    /\ IF IsVal(dataset.valid_time)
       THEN /\ valid_time' = dataset.valid_time
            /\ events' = Append(events, Event("read", "valid_time"))
       ELSE /\ valid_time' = None
            /\ UNCHANGED events
    /\ pc' = "data_start_time"
    /\ UNCHANGED <<cap_vars, pgm_vars, aqc_vars, dataset, field_read,
                   precipitation, start_time, time_step, projdef,
                   open_handles, result, metadata, geodata, R>>

\* lines 273-277
rf3_data_start_time ==
    /\ importer = "rf3" /\ pc = "data_start_time"
    /\ IF IsVal(dataset.start_time)
       THEN /\ start_time' = dataset.start_time
            /\ events' = Append(events, Event("read", "start_time"))
       ELSE /\ start_time' = None
            /\ UNCHANGED events
    /\ pc' = "data_time_step"
    /\ UNCHANGED <<cap_vars, pgm_vars, aqc_vars, dataset, field_read,
                   precipitation, valid_time, time_step, projdef,
                   open_handles, result, metadata, geodata, R>>

\* lines 278-280
rf3_data_time_step ==
    /\ importer = "rf3" /\ pc = "data_time_step"
    /\ IF start_time.tag # "None" /\ valid_time.tag # "None"
       THEN time_step' = Val(TimeStepMinutes(valid_time.val, start_time.val))
       ELSE UNCHANGED time_step
    /\ pc' = "data_rescale"
    /\ UNCHANGED <<cap_vars, pgm_vars, aqc_vars, dataset, field_read,
                   precipitation, valid_time, start_time, projdef,
                   open_handles, events, result, metadata, geodata, R>>

\* lines 281-283
rf3_data_rescale ==
    /\ importer = "rf3" /\ pc = "data_rescale"
    /\ IF time_step.tag = "unbound"
       THEN Raise("UnboundLocalError: time_step", 281)
            /\ UNCHANGED precipitation
       ELSE IF Truthy(time_step.val)
       THEN IF time_step.val = 0
            THEN Raise("ZeroDivisionError", 282) /\ UNCHANGED precipitation
            ELSE LET factor_rain == Rat(60, time_step.val)
                 IN  /\ precipitation' =
                            Val(MapArray(LAMBDA x : Mul(x, factor_rain),
                                         precipitation.val))
                     /\ pc' = "data_close"
                     /\ UNCHANGED result
       ELSE /\ pc' = "data_close"
            /\ UNCHANGED <<precipitation, result>>
    /\ UNCHANGED <<cap_vars, pgm_vars, aqc_vars, dataset, field_read,
                   valid_time, start_time, time_step, projdef, open_handles,
                   events, metadata, geodata, R>>

\* lines 286-287 and the assignment of line 255
rf3_data_close ==
    /\ importer = "rf3" /\ pc = "data_close"
    /\ events' = Append(events, Event("close", "Dataset"))
    /\ open_handles' = open_handles \ {"data.ds_rainfall"}
    /\ R' = precipitation
    /\ pc' = "geodata_open"
    /\ UNCHANGED <<cap_vars, pgm_vars, aqc_vars, rf3_vars, result, metadata,
                   geodata>>

\* line 290
rf3_geodata_open ==
    /\ importer = "rf3" /\ pc = "geodata_open"
    /\ events' = Append(events, Event("open", "Dataset"))
    /\ open_handles' = open_handles \cup {"geodata.ds_rainfall"}
    /\ pc' = "geodata_proj"
    /\ UNCHANGED <<cap_vars, pgm_vars, aqc_vars, rf3_vars, result, metadata,
                   geodata, R>>

\* lines 291-307
rf3_geodata_proj ==
    /\ importer = "rf3" /\ pc = "geodata_proj"
    /\ IF dataset.proj = "absent"
       THEN /\ pc' = "geodata_close"
            /\ UNCHANGED <<projdef, events, result>>
       ELSE IF dataset.proj = "no_grid_mapping_name"
       THEN /\ Raise("AttributeError: grid_mapping_name", 293)
            /\ events' = Append(events, Event("read", "proj"))
            /\ UNCHANGED projdef
       ELSE /\ events' = Append(events, Event("read", "proj"))
            /\ projdef' =
                 IF dataset.proj = "albers_conical_equal_area"
                 THEN Val(<<"+proj=aea ",
                            " +lon_0=", Str("longitude_of_central_meridian"),
                            " +lat_0=", Str("latitude_of_projection_origin"),
                            " +lat_1=", Str("standard_parallel[0]"),
                            " +lat_2=", Str("standard_parallel[1]")>>)
                 ELSE None
            /\ pc' = "geodata_close"
            /\ UNCHANGED result
    /\ UNCHANGED <<cap_vars, pgm_vars, aqc_vars, dataset, field_read,
                   precipitation, valid_time, start_time, time_step,
                   open_handles, metadata, geodata, R>>

\* line 308
rf3_geodata_close ==
    /\ importer = "rf3" /\ pc = "geodata_close"
    /\ events' = Append(events, Event("close", "Dataset"))
    /\ open_handles' = open_handles \ {"geodata.ds_rainfall"}
    /\ pc' = "geodata_return"
    /\ UNCHANGED <<cap_vars, pgm_vars, aqc_vars, rf3_vars, result, metadata,
                   geodata, R>>

\* line 309 and the assignment of line 256
rf3_geodata_return ==
    /\ importer = "rf3" /\ pc = "geodata_return"
    /\ IF projdef.tag = "unbound"
       THEN Raise("UnboundLocalError: projdef", 309) /\ UNCHANGED geodata
       ELSE /\ geodata' = projdef
            /\ pc' = "metadata"
            /\ UNCHANGED result
    /\ UNCHANGED <<cap_vars, pgm_vars, aqc_vars, rf3_vars, open_handles,
                   events, metadata, R>>

\* lines 257-259 and 312-318
rf3_metadata ==
    /\ importer = "rf3" /\ pc = "metadata"
    /\ metadata' = Val([institution |-> "Bureau of Meteorology",
                        timestep |-> 0,
                        unit |-> "mm/h"])
    /\ result' = Returned
    /\ pc' = "exit"
    /\ UNCHANGED <<cap_vars, pgm_vars, aqc_vars, rf3_vars, open_handles,
                   events, geodata, R>>

NextRf3 ==
    \/ import_bom_rf3
    \/ rf3_data_open
    \/ rf3_data_precipitation
    \/ rf3_data_valid_time
    \/ rf3_data_start_time
    \/ rf3_data_time_step
    \/ rf3_data_rescale
    \/ rf3_data_close
    \/ rf3_geodata_open
    \/ rf3_geodata_proj
    \/ rf3_geodata_close
    \/ rf3_geodata_return
    \/ rf3_metadata

InitCommon ==
    /\ pc = "start"
    /\ \E c \in Capabilities :
           /\ pyproj_imported = c[1]
           /\ pil_imported = c[2]
           /\ netcdf4_imported = c[3]
    /\ open_handles = {}
    /\ events = <<>>
    /\ result = Running
    /\ metadata = Unbound
    /\ geodata = Unbound
    /\ R = Unbound

InitPgmUnused ==
    /\ gzipped = FALSE
    /\ lines = <<>>
    /\ pos = 0
    /\ l = Unbound

InitAqcUnused ==
    /\ B = Unbound
    /\ lut = Unbound

InitRf3Unused ==
    /\ dataset = Unbound
    /\ field_read = Unbound
    /\ precipitation = Unbound
    /\ valid_time = Unbound
    /\ start_time = Unbound
    /\ time_step = Unbound
    /\ projdef = Unbound

InitRf3 ==
    /\ importer = "rf3"
    /\ InitCommon
    /\ InitPgmUnused
    /\ InitAqcUnused
    /\ dataset \in Datasets
    /\ field_read = Unbound
    /\ precipitation = Unbound
    /\ valid_time = Unbound
    /\ start_time = Unbound
    /\ time_step = Unbound
    /\ projdef = Unbound

SpecRf3 == InitRf3 /\ [][NextRf3]_vars


----------------------------------------------------------------------------
(* import_aqc *)

PixelValues == {0, 100, 255}

Zero == Rat(0, 1)

(* (10.**((i - 71.2)/20.0)/A)**(1.0/b)*60/5 with A = 316.0, b = 1.5: the  *)
(* value is kept as the exponent i - 71.2 it is computed from.           *)
ZR(i) == [kind |-> "zr", num |-> 10 * i - 712, den |-> 10]

(* The table with the upper bound of the second zero range left out. *)
LutEntry_NoUpperBound(i) ==
    IF (i < 2) \/ (i > 250) THEN Zero
    ELSE IF i = 255 THEN NaN
    ELSE ZR(i)

\* lines 192-197
LutEntry(i) ==
    IF (i < 2) \/ (i > 250 /\ i < 255) THEN Zero
    ELSE IF i = 255 THEN NaN
    ELSE ZR(i)

\* lines 204-233
_import_aqc_geodata ==
    [projection |-> "+proj=somerc  +lon_0=7.439583333333333 +lat_0=46.95240555555556 +k_0=1 +x_0=600000 +y_0=200000 +ellps=bessel +towgs84=674.374,15.056,405.346,0,0,0,0 +units=m +no_defs",
     x1 |-> 255000, y1 |-> 160000, x2 |-> 965000, y2 |-> 480000,
     xpixelsize |-> 1000, ypixelsize |-> 1000, yorigin |-> "upper"]

(* import_aqc testing the flag of another package. *)
import_aqc_WrongFlag ==
    /\ importer = "aqc" /\ pc = "start"
    /\ IF ~pyproj_imported
       THEN Raise("Exception: PIL not imported", 175)
            /\ UNCHANGED <<metadata, geodata>>
       ELSE /\ metadata' = Val([institution |-> "MeteoSwiss",
                                timestep |-> 5,
                                unit |-> "mm/h"])
            /\ geodata' = Val(_import_aqc_geodata)
            /\ pc' = "aqc_open"
            /\ UNCHANGED result
    /\ UNCHANGED <<cap_vars, pgm_vars, aqc_vars, rf3_vars, open_handles,
                   events, R>>

\* lines 174-182
import_aqc ==
    /\ importer = "aqc" /\ pc = "start"
    /\ IF ~pil_imported
       THEN Raise("Exception: PIL not imported", 175)
            /\ UNCHANGED <<metadata, geodata>>
       ELSE /\ metadata' = Val([institution |-> "MeteoSwiss",
                                timestep |-> 5,
                                unit |-> "mm/h"])
            /\ geodata' = Val(_import_aqc_geodata)
            /\ pc' = "aqc_open"
            /\ UNCHANGED result
    /\ UNCHANGED <<cap_vars, pgm_vars, aqc_vars, rf3_vars, open_handles,
                   events, R>>

\* lines 184-185: PIL opens the file and np.array reads its pixels
aqc_open ==
    /\ importer = "aqc" /\ pc = "aqc_open"
    /\ \E a \in Arrays(PixelValues) : B' = Val(a)
    /\ events' = events \o <<Event("open", "Image"), Event("read", "Image")>>
    /\ pc' = "aqc_lut"
    /\ UNCHANGED <<cap_vars, pgm_vars, lut, rf3_vars, open_handles, result,
                   metadata, geodata, R>>

\* lines 189-197
aqc_lut ==
    /\ importer = "aqc" /\ pc = "aqc_lut"
    /\ lut' = Val([i \in 0..255 |-> LutEntry(i)])
    /\ pc' = "aqc_apply"
    /\ UNCHANGED <<cap_vars, pgm_vars, B, rf3_vars, open_handles, events,
                   result, metadata, geodata, R>>

\* lines 200-202
aqc_apply ==
    /\ importer = "aqc" /\ pc = "aqc_apply"
    /\ R' = Val(MapArray(LAMBDA i : lut.val[i], B.val))
    /\ result' = Returned
    /\ pc' = "exit"
    /\ UNCHANGED <<cap_vars, pgm_vars, aqc_vars, rf3_vars, open_handles,
                   events, metadata, geodata>>

NextAqc ==
    \/ import_aqc
    \/ aqc_open
    \/ aqc_lut
    \/ aqc_apply

InitAqc ==
    /\ importer = "aqc"
    /\ InitCommon
    /\ InitPgmUnused
    /\ InitRf3Unused
    /\ B = Unbound
    /\ lut = Unbound

SpecAqc == InitAqc /\ [][NextAqc]_vars


----------------------------------------------------------------------------
(* import_pgm.  Text is a sequence of one-character strings, a line keeps *)
(* its newline, and readline returns the empty text at end of stream.     *)

Whitespace == {" ", "\n", "\t"}
Digits == <<"0", "1", "2", "3", "4", "5", "6", "7", "8", "9">>
IsDigit(c) == \E i \in 1..10 : Digits[i] = c
DigitValue(c) == (CHOOSE i \in 1..10 : Digits[i] = c) - 1

(* str.strip() *)
RECURSIVE LStrip(_)
LStrip(s) ==
    IF s # <<>> /\ Head(s) \in Whitespace THEN LStrip(Tail(s)) ELSE s
RECURSIVE RStrip(_)
RStrip(s) ==
    IF s # <<>> /\ s[Len(s)] \in Whitespace
    THEN RStrip(SubSeq(s, 1, Len(s) - 1))
    ELSE s
Strip(s) == RStrip(LStrip(s))

(* str.split(' '): cuts at every single space, so two spaces in a row    *)
(* give an empty token, and the empty text gives one empty token.        *)
RECURSIVE Split(_)
Split(s) ==
    IF \E i \in 1..Len(s) : s[i] = " "
    THEN LET i == CHOOSE i \in 1..Len(s) :
                      s[i] = " " /\ \A j \in 1..(i - 1) : s[j] # " "
         IN  <<SubSeq(s, 1, i - 1)>> \o Split(SubSeq(s, i + 1, Len(s)))
    ELSE <<s>>

RECURSIVE DigitsValue(_)
DigitsValue(s) ==
    IF s = <<>> THEN 0
    ELSE 10 * DigitsValue(SubSeq(s, 1, Len(s) - 1)) + DigitValue(s[Len(s)])

AllDigits(s) == s # <<>> /\ \A i \in 1..Len(s) : IsDigit(s[i])

(* int(text): surrounding whitespace is dropped, one sign is allowed;    *)
(* None stands for the ValueError.                                       *)
ParseInt(s) ==
    LET t == Strip(s)
        signed == t # <<>> /\ t[1] \in {"+", "-"}
        body == IF signed THEN Tail(t) ELSE t
    IN  IF ~AllDigits(body) THEN None
        ELSE Val(IF signed /\ t[1] = "-" THEN -DigitsValue(body)
                 ELSE DigitsValue(body))

(* float(text) for plain decimal literals: sign, digits, one optional    *)
(* point; None stands for the ValueError.                                *)
ParseFloat(s) ==
    LET t == Strip(s)
        signed == t # <<>> /\ t[1] \in {"+", "-"}
        body == IF signed THEN Tail(t) ELSE t
        points == {i \in 1..Len(body) : body[i] = "."}
        p == IF points = {} THEN Len(body) + 1 ELSE CHOOSE i \in points : TRUE
        whole == SubSeq(body, 1, p - 1)
        frac == SubSeq(body, p + 1, Len(body))
        pow10[n \in 0..Len(body)] == IF n = 0 THEN 1 ELSE 10 * pow10[n - 1]
        sgn == IF signed /\ t[1] = "-" THEN -1 ELSE 1
    IN  IF Cardinality(points) > 1
           \/ ~(\A i \in 1..Len(whole) : IsDigit(whole[i]))
           \/ ~(\A i \in 1..Len(frac) : IsDigit(frac[i]))
           \/ (whole = <<>> /\ frac = <<>>)
        THEN None
        ELSE Val(Rat(sgn * (DigitsValue(whole) * pow10[Len(frac)]
                            + DigitsValue(frac)),
                     pow10[Len(frac)]))

(* Dictionary keys and literals of the source, as text. *)

\* 'type'
S_type ==
    <<"t", "y", "p", "e">>

\* 'centrallongitude'
S_centrallongitude ==
    <<"c", "e", "n", "t", "r", "a", "l", "l", "o", "n", "g", "i", "t", "u",
          "d", "e">>

\* 'centrallatitude'
S_centrallatitude ==
    <<"c", "e", "n", "t", "r", "a", "l", "l", "a", "t", "i", "t", "u", "d",
          "e">>

\* 'truelatitude'
S_truelatitude ==
    <<"t", "r", "u", "e", "l", "a", "t", "i", "t", "u", "d", "e">>

\* 'bottomleft'
S_bottomleft ==
    <<"b", "o", "t", "t", "o", "m", "l", "e", "f", "t">>

\* 'topright'
S_topright ==
    <<"t", "o", "p", "r", "i", "g", "h", "t">>

\* 'metersperpixel_x'
S_metersperpixel_x ==
    <<"m", "e", "t", "e", "r", "s", "p", "e", "r", "p", "i", "x", "e", "l",
          "_", "x">>

\* 'metersperpixel_y'
S_metersperpixel_y ==
    <<"m", "e", "t", "e", "r", "s", "p", "e", "r", "p", "i", "x", "e", "l",
          "_", "y">>

\* 'missingval'
S_missingval ==
    <<"m", "i", "s", "s", "i", "n", "g", "v", "a", "l">>

\* 'institution'
S_institution ==
    <<"i", "n", "s", "t", "i", "t", "u", "t", "i", "o", "n">>

\* 'timestep'
S_timestep ==
    <<"t", "i", "m", "e", "s", "t", "e", "p">>

\* 'unit'
S_unit ==
    <<"u", "n", "i", "t">>

\* 'stereographic'
S_stereographic ==
    <<"s", "t", "e", "r", "e", "o", "g", "r", "a", "p", "h", "i", "c">>


(* Header lines the small files are made of. *)

\* '# k v\n'
L_k_v ==
    <<"#", " ", "k", " ", "v", "\n">>

\* '#k  w\n'
L_k__w ==
    <<"#", "k", " ", " ", "w", "\n">>

\* '#\n'
L_hash ==
    <<"#", "\n">>

\* '7\n'
L_7 ==
    <<"7", "\n">>

\* '2 2\n'
L_dims ==
    <<"2", " ", "2", "\n">>

HeaderLines == {L_k_v, L_k__w, L_hash, L_7, L_dims}


(* Header of a PGM composite of the FMI archive. *)

\* 'P5\n'
F_magic ==
    <<"P", "5", "\n">>

\* '# type stereographic\n'
F_stereographic ==
    <<"#", " ", "t", "y", "p", "e", " ", "s", "t", "e", "r", "e", "o", "g",
          "r", "a", "p", "h", "i", "c", "\n">>

\* '# type mercator\n'
F_mercator ==
    <<"#", " ", "t", "y", "p", "e", " ", "m", "e", "r", "c", "a", "t", "o",
          "r", "\n">>

\* '# centrallongitude 25\n'
F_centrallongitude ==
    <<"#", " ", "c", "e", "n", "t", "r", "a", "l", "l", "o", "n", "g", "i",
          "t", "u", "d", "e", " ", "2", "5", "\n">>

\* '# centrallatitude 90\n'
F_centrallatitude ==
    <<"#", " ", "c", "e", "n", "t", "r", "a", "l", "l", "a", "t", "i", "t",
          "u", "d", "e", " ", "9", "0", "\n">>

\* '# truelatitude 60\n'
F_truelatitude ==
    <<"#", " ", "t", "r", "u", "e", "l", "a", "t", "i", "t", "u", "d", "e",
          " ", "6", "0", "\n">>

\* '# bottomleft 18.6 57.93\n'
F_bottomleft ==
    <<"#", " ", "b", "o", "t", "t", "o", "m", "l", "e", "f", "t", " ", "1",
          "8", ".", "6", " ", "5", "7", ".", "9", "3", "\n">>

\* '# topright 34.903 69.005\n'
F_topright ==
    <<"#", " ", "t", "o", "p", "r", "i", "g", "h", "t", " ", "3", "4", ".",
          "9", "0", "3", " ", "6", "9", ".", "0", "0", "5", "\n">>

\* '# }\n'
F_brace ==
    <<"#", " ", "}", "\n">>

\* '# metersperpixel_x 999.674\n'
F_metersperpixel_x ==
    <<"#", " ", "m", "e", "t", "e", "r", "s", "p", "e", "r", "p", "i", "x",
          "e", "l", "_", "x", " ", "9", "9", "9", ".", "6", "7", "4", "\n">>

\* '# metersperpixel_y 999.62\n'
F_metersperpixel_y ==
    <<"#", " ", "m", "e", "t", "e", "r", "s", "p", "e", "r", "p", "i", "x",
          "e", "l", "_", "y", " ", "9", "9", "9", ".", "6", "2", "\n">>

\* '255\n'
F_255 ==
    <<"2", "5", "5", "\n">>

\* '0\n'
F_0 ==
    <<"0", "\n">>

(* Pieces of the projection definition, lines 94-103. *)

\* '+proj=stere '
P_stere ==
    <<"+", "p", "r", "o", "j", "=", "s", "t", "e", "r", "e", " ">>

\* ' +lon_0='
P_lon_0 ==
    <<" ", "+", "l", "o", "n", "_", "0", "=">>

\* 'E'
P_E ==
    <<"E">>

\* ' +lat_0='
P_lat_0 ==
    <<" ", "+", "l", "a", "t", "_", "0", "=">>

\* 'N'
P_N ==
    <<"N">>

\* ' +lat_ts='
P_lat_ts ==
    <<" ", "+", "l", "a", "t", "_", "t", "s", "=">>

\* ' +a=6371288 +x_0=380886.310 +y_0=3395677.920 +no_defs'
P_fixed ==
    <<" ", "+", "a", "=", "6", "3", "7", "1", "2", "8", "8", " ", "+", "x",
          "_", "0", "=", "3", "8", "0", "8", "8", "6", ".", "3", "1", "0",
          " ", "+", "y", "_", "0", "=", "3", "3", "9", "5", "6", "7", "7",
          ".", "9", "2", "0", " ", "+", "n", "o", "_", "d", "e", "f", "s">>


SampleValues == {0, 66, 255}

(* Files: every sequence of at most MaxLines header lines, and the FMI   *)
(* header with either projection type and either sentinel.               *)
SmallFiles == UNION {[1..n -> HeaderLines] : n \in 0..MaxLines}

FmiFile(type_line, sentinel_line) ==
    <<F_magic, type_line, F_centrallongitude, F_centrallatitude,
      F_truelatitude, F_bottomleft, F_topright, F_brace,
      F_metersperpixel_x, F_metersperpixel_y, L_dims, sentinel_line>>

FmiFiles ==
    {FmiFile(F_stereographic, F_255), FmiFile(F_stereographic, F_0),
     FmiFile(F_mercator, F_255)}

(* f.readline(): the next line, or the empty text at end of stream. *)
ReadLine == IF pos < Len(lines) THEN lines[pos + 1] ELSE <<>>
Advance == pos + 1

(* d[k] = v on a dictionary *)
Put(dict, k, v) ==
    [x \in (DOMAIN dict) \cup {k} |-> IF x = k THEN v ELSE dict[x]]

Ok(v) == [ok |-> TRUE, error |-> "", line |-> 0, value |-> v]
Err(e, n) == [ok |-> FALSE, error |-> e, line |-> n, value |-> 0]

(* pr(lon, lat) of a pyproj.Proj object, kept symbolic. *)
Proj(axis, def, lon, lat) ==
    [axis |-> axis, projdef |-> def, lon |-> lon, lat |-> lat]

\* lines 87-124
_import_pgm_geodata(md) ==
    LET has(k) == k \in DOMAIN md
        floats(k) == [i \in DOMAIN md[k] |-> ParseFloat(md[k][i])]
        bad(k) == \E i \in DOMAIN md[k] : ~IsVal(floats(k)[i])
        def == P_stere \o P_lon_0 \o md[S_centrallongitude][1] \o P_E
               \o P_lat_0 \o md[S_centrallatitude][1] \o P_N
               \o P_lat_ts \o md[S_truelatitude][1] \o P_fixed
        ll == floats(S_bottomleft)
        ur == floats(S_topright)
    IN  IF ~has(S_type) THEN Err("KeyError: type", 92)
        ELSE IF md[S_type][1] # S_stereographic
        THEN Err("ValueError: unknown projection", 93)
        ELSE IF ~has(S_centrallongitude)
        THEN Err("KeyError: centrallongitude", 95)
        ELSE IF ~has(S_centrallatitude)
        THEN Err("KeyError: centrallatitude", 96)
        ELSE IF ~has(S_truelatitude) THEN Err("KeyError: truelatitude", 97)
        ELSE IF ~has(S_bottomleft) THEN Err("KeyError: bottomleft", 107)
        ELSE IF bad(S_bottomleft) \/ Len(md[S_bottomleft]) # 2
        THEN Err("ValueError", 107)
        ELSE IF ~has(S_topright) THEN Err("KeyError: topright", 108)
        ELSE IF bad(S_topright) \/ Len(md[S_topright]) # 2
        THEN Err("ValueError", 108)
        ELSE IF ~has(S_metersperpixel_x)
        THEN Err("KeyError: metersperpixel_x", 119)
        ELSE IF ~IsVal(ParseFloat(md[S_metersperpixel_x][1]))
        THEN Err("ValueError", 119)
        ELSE IF ~has(S_metersperpixel_y)
        THEN Err("KeyError: metersperpixel_y", 120)
        ELSE IF ~IsVal(ParseFloat(md[S_metersperpixel_y][1]))
        THEN Err("ValueError", 120)
        ELSE Ok([projection |-> def,
                 x1 |-> Proj("x", def, ll[1].val, ll[2].val),
                 y1 |-> Proj("y", def, ll[1].val, ll[2].val),
                 x2 |-> Proj("x", def, ur[1].val, ur[2].val),
                 y2 |-> Proj("y", def, ur[1].val, ur[2].val),
                 xpixelsize |-> ParseFloat(md[S_metersperpixel_x][1]).val,
                 ypixelsize |-> ParseFloat(md[S_metersperpixel_y][1]).val,
                 yorigin |-> "upper"])

(* (R - 64.0) / 2.0 on one cell: NaN stays NaN. *)
Rescale(x) ==
    IF IsNaN(x) THEN NaN ELSE Rat(x.num - 64 * x.den, 2 * x.den)

(* The decoding with the mask taken after the rescaling. *)
PgmDecode_MaskAfterRescale(a, missingval) ==
    LET Rscaled == MapArray(LAMBDA s : Rescale(Rat(s, 1)), a)
    IN  MapArray(LAMBDA x : IF x = Rat(missingval, 1) THEN NaN ELSE x,
                 Rscaled)

\* lines 80-83
PgmDecode(a, missingval) ==
    LET MASK == MapArray(LAMBDA s : s = missingval, a)
        Rfloat == MapArray(LAMBDA s : Rat(s, 1), a)
        Rmasked == [r \in DOMAIN a |-> [c \in DOMAIN a[r] |->
                       IF MASK[r][c] THEN NaN ELSE Rfloat[r][c]]]
    IN  MapArray(Rescale, Rmasked)

\* lines 69-72
import_pgm ==
    /\ importer = "pgm" /\ pc = "start"
    /\ IF ~pyproj_imported
       THEN Raise("Exception: pyproj not imported", 70)
       ELSE pc' = "metadata_open" /\ UNCHANGED result
    /\ UNCHANGED <<cap_vars, pgm_vars, aqc_vars, rf3_vars, open_handles,
                   events, metadata, geodata, R>>

\* lines 127-134
pgm_metadata_open ==
    /\ importer = "pgm" /\ pc = "metadata_open"
    /\ metadata' = Val(<<>>)
    /\ events' = Append(events,
                        Event("open", IF gzipped THEN "gzip.open" ELSE "open"))
    /\ open_handles' = open_handles \cup {"metadata.f"}
    /\ l' = Val(ReadLine)
    /\ pos' = Advance
    /\ pc' = "metadata_find"
    /\ UNCHANGED <<cap_vars, gzipped, lines, aqc_vars, rf3_vars, result,
                   geodata, R>>

(* The first loop written with startswith: the empty text of the end of *)
(* stream does not start with '#', and the loop reads on.               *)
pgm_metadata_find_StartsWith ==
    /\ importer = "pgm" /\ pc = "metadata_find"
    /\ IF l.val = <<>> \/ l.val[1] # "#"
       THEN /\ l' = Val(ReadLine)
            /\ pos' = Advance
            /\ UNCHANGED <<pc, result>>
       ELSE /\ pc' = "metadata_block"
            /\ UNCHANGED <<l, pos, result>>
    /\ UNCHANGED <<cap_vars, gzipped, lines, aqc_vars, rf3_vars,
                   open_handles, events, metadata, geodata, R>>

\* lines 135-136, one test of the loop condition
pgm_metadata_find ==
    /\ importer = "pgm" /\ pc = "metadata_find"
    /\ IF l.val = <<>>
       THEN Raise("IndexError", 135) /\ UNCHANGED <<l, pos>>
       ELSE IF l.val[1] # "#"
       THEN /\ l' = Val(ReadLine)
            /\ pos' = Advance
            /\ UNCHANGED <<pc, result>>
       ELSE /\ pc' = "metadata_block"
            /\ UNCHANGED <<l, pos, result>>
    /\ UNCHANGED <<cap_vars, gzipped, lines, aqc_vars, rf3_vars,
                   open_handles, events, metadata, geodata, R>>

(* The second loop leaving the block at a '#' line of fewer than two *)
(* tokens instead of reading on.                                     *)
pgm_metadata_block_ShortLineEnds ==
    /\ importer = "pgm" /\ pc = "metadata_block"
    /\ IF l.val = <<>>
       THEN Raise("IndexError", 137) /\ UNCHANGED <<l, pos, metadata>>
       ELSE IF l.val[1] = "#" /\ Len(Split(Strip(Tail(l.val)))) >= 2
       THEN LET x == Split(Strip(Tail(l.val)))
            IN  /\ metadata' = Val(Put(metadata.val, x[1], Tail(x)))
                /\ l' = Val(ReadLine)
                /\ pos' = Advance
                /\ UNCHANGED <<pc, result>>
       ELSE /\ pc' = "metadata_missingval"
            /\ UNCHANGED <<l, pos, metadata, result>>
    /\ UNCHANGED <<cap_vars, gzipped, lines, aqc_vars, rf3_vars,
                   open_handles, events, geodata, R>>

\* lines 137-146, one test of the loop condition
pgm_metadata_block ==
    /\ importer = "pgm" /\ pc = "metadata_block"
    /\ IF l.val = <<>>
       THEN Raise("IndexError", 137) /\ UNCHANGED <<l, pos, metadata>>
       ELSE IF l.val[1] = "#"
       THEN LET x == Split(Strip(Tail(l.val)))
            IN  /\ IF Len(x) >= 2
                   THEN metadata' = Val(Put(metadata.val, x[1], Tail(x)))
                   ELSE UNCHANGED metadata
                /\ l' = Val(ReadLine)
                /\ pos' = Advance
                /\ UNCHANGED <<pc, result>>
       ELSE /\ pc' = "metadata_missingval"
            /\ UNCHANGED <<l, pos, metadata, result>>
    /\ UNCHANGED <<cap_vars, gzipped, lines, aqc_vars, rf3_vars,
                   open_handles, events, geodata, R>>

\* lines 147-148
pgm_metadata_missingval ==
    /\ importer = "pgm" /\ pc = "metadata_missingval"
    /\ l' = Val(ReadLine)
    /\ pos' = Advance
    /\ IF IsVal(ParseInt(ReadLine))
       THEN /\ metadata' =
                 Val(Put(metadata.val, S_missingval, ParseInt(ReadLine).val))
            /\ pc' = "metadata_return"
            /\ UNCHANGED result
       ELSE Raise("ValueError", 148) /\ UNCHANGED metadata
    /\ UNCHANGED <<cap_vars, gzipped, lines, aqc_vars, rf3_vars,
                   open_handles, events, geodata, R>>

\* lines 149-155
pgm_metadata_return ==
    /\ importer = "pgm" /\ pc = "metadata_return"
    /\ events' = Append(events, Event("close", "f"))
    /\ open_handles' = open_handles \ {"metadata.f"}
    /\ metadata' =
         Val(Put(Put(Put(metadata.val,
                         S_institution, "Finnish Meteorological Institute"),
                     S_timestep, 5),
                 S_unit, "dBZ"))
    /\ pc' = "imread"
    /\ UNCHANGED <<cap_vars, pgm_vars, aqc_vars, rf3_vars, result, geodata,
                   R>>

\* lines 74-85.  The samples imread returns are kept in field_read; when
\* _import_pgm_geodata raises they are discarded unseen.
pgm_decode ==
    /\ importer = "pgm" /\ pc = "imread"
    /\ events' = events \o
         <<Event("open", IF gzipped THEN "gzip.open" ELSE "imread"),
           Event("read", "imread")>>
    /\ open_handles' =
         IF gzipped THEN open_handles \cup {"imread.gzip"} ELSE open_handles
    /\ LET g == _import_pgm_geodata(metadata.val)
       IN  IF ~g.ok
           THEN Raise(g.error, g.line) /\ UNCHANGED <<field_read, geodata, R>>
           ELSE \E a \in Arrays(SampleValues) :
                    /\ field_read' = Val(a)
                    /\ geodata' = Val(g.value)
                    /\ R' = Val(PgmDecode(a, metadata.val[S_missingval]))
                    /\ result' = Returned
                    /\ pc' = "exit"
    /\ UNCHANGED <<cap_vars, pgm_vars, aqc_vars, dataset, precipitation,
                   valid_time, start_time, time_step, projdef, metadata>>

NextPgm ==
    \/ import_pgm
    \/ pgm_metadata_open
    \/ pgm_metadata_find
    \/ pgm_metadata_block
    \/ pgm_metadata_missingval
    \/ pgm_metadata_return
    \/ pgm_decode

InitPgm ==
    /\ importer = "pgm"
    /\ InitCommon
    /\ InitAqcUnused
    /\ InitRf3Unused
    /\ gzipped \in BOOLEAN
    /\ lines \in SmallFiles \cup FmiFiles
    /\ pos = 0
    /\ l = Unbound

SpecPgm == InitPgm /\ [][NextPgm]_vars

(* The whole model: one call of any of the three importers. *)
Init == InitPgm \/ InitAqc \/ InitRf3
Next == NextPgm \/ NextAqc \/ NextRf3
Spec == Init /\ [][Next]_vars


----------------------------------------------------------------------------
(* The header format, stated on the whole file. *)

IsComment(line) == line # <<>> /\ line[1] = "#"
Tokens(line) == Split(Strip(Tail(line)))
Min(S) == CHOOSE x \in S : \A y \in S : x <= y
Max(S) == CHOOSE x \in S : \A y \in S : x >= y

(* Index of the first '#' line, and of the first non-comment line after it; *)
(* 0 when there is none.                                                    *)
BlockStart(ls) ==
    LET S == {i \in 1..Len(ls) : IsComment(ls[i])}
    IN  IF S = {} THEN 0 ELSE Min(S)
BlockEnd(ls) ==
    LET b == BlockStart(ls)
        S == {i \in (b + 1)..Len(ls) : ~IsComment(ls[i])}
    IN  IF b = 0 \/ S = {} THEN 0 ELSE Min(S)

WellFormed(ls) ==
    LET e == BlockEnd(ls)
    IN  /\ e # 0
        /\ e < Len(ls)
        /\ IsVal(ParseInt(ls[e + 1]))

ExpectedHeader(ls) ==
    LET block == BlockStart(ls)..(BlockEnd(ls) - 1)
        toks == [i \in block |-> Tokens(ls[i])]
        keyed == {i \in block : Len(toks[i]) >= 2}
        keys == {toks[i][1] : i \in keyed}
    IN  [k \in keys |-> Tail(toks[Max({i \in keyed : toks[i][1] = k})])]

ExpectedMissingval(ls) == ParseInt(ls[BlockEnd(ls) + 1]).val

FixedKeys == {S_missingval, S_institution, S_timestep, S_unit}
HeaderPart(md) == [k \in (DOMAIN md) \ FixedKeys |-> md[k]]

(* Lines of _import_pgm_metadata that raise on a malformed header. *)
ParseErrorLines == {135, 137, 148}
ParseErrors == {"IndexError", "ValueError"}

(* The state in which _import_pgm_metadata has returned to import_pgm. *)
MetadataReturned == importer = "pgm" /\ pc = "imread"

----------------------------------------------------------------------------
(* Claims *)

\* C1: import_pgm returns an array of the shape of the samples in which a
\* cell is NaN when its sample equals the sentinel of the header and
\* (sample - 64) / 2 otherwise.
C1_PgmDecodesSamples ==
    (importer = "pgm" /\ result.status = "returned") =>
        LET sentinel == ExpectedMissingval(lines)
        IN  /\ metadata.val[S_missingval] = sentinel
            /\ Shape(R.val) = Shape(field_read.val)
            /\ \A r \in DOMAIN field_read.val :
                 \A c \in DOMAIN field_read.val[r] :
                    R.val[r][c] =
                        IF field_read.val[r][c] = sentinel
                        THEN NaN
                        ELSE Rat(field_read.val[r][c] - 64, 2)

C1_Witness ==
    /\ importer = "pgm" /\ result.status = "returned"
    /\ metadata.val[S_missingval] = 255
    /\ field_read.val = <<<<66, 0>>, <<255, 66>>>>
    /\ R.val = <<<<Rat(1, 1), Rat(-32, 1)>>, <<NaN, Rat(1, 1)>>>>

ElapsedMinutes(valid, start) == (valid - start) \div 60
BothInstants ==
    /\ importer = "rf3"
    /\ dataset.has_precipitation
    /\ IsVal(dataset.valid_time)
    /\ IsVal(dataset.start_time)
DataLines == 262..287
GeodataLines == 289..309
AfterRescale ==
    pc \in {"data_close", "geodata_open", "geodata_proj", "geodata_close",
            "geodata_return", "metadata"}
    \/ (pc = "exit" /\ result.line \notin DataLines \cup {253})
AfterData ==
    pc \in {"geodata_open", "geodata_proj", "geodata_close",
            "geodata_return", "metadata"}
    \/ (pc = "exit" /\ result.line \notin DataLines \cup {253})

\* C2: with precipitation, valid_time and start_time present (valid not
\* before start), the timestep is the elapsed whole minutes between them,
\* differences of a day or more included, and a nonzero timestep rescales
\* every cell by 60 / timestep.
C2_TimestepIsElapsedMinutes ==
    (BothInstants /\ dataset.valid_time.val >= dataset.start_time.val
        /\ AfterRescale) =>
        LET ts == ElapsedMinutes(dataset.valid_time.val,
                                 dataset.start_time.val)
        IN  /\ time_step = Val(ts)
            /\ ts # 0 =>
                 precipitation.val =
                     MapArray(LAMBDA x : Mul(x, Rat(60, ts)), field_read.val)

\* C3: with precipitation present and valid_time or start_time absent, the
\* data stage raises nothing and the field is returned as read.
C3_UnderivableTimestepLeavesField ==
    (importer = "rf3" /\ dataset.has_precipitation
        /\ (~IsVal(dataset.valid_time) \/ ~IsVal(dataset.start_time))) =>
        /\ ~(result.status = "raised" /\ result.line \in DataLines)
        /\ AfterData => R = field_read

\* C4: an absent precipitation variable gives a None field, an absent proj
\* variable or another grid mapping gives a None projection definition, and
\* neither makes its stage raise.
C4_AbsentVariablesGiveNone ==
    importer = "rf3" =>
        /\ ~dataset.has_precipitation =>
              /\ ~(result.status = "raised" /\ result.line \in DataLines)
              /\ AfterData => R = None
        /\ dataset.proj \in {"absent", "mercator"} =>
              /\ ~(result.status = "raised" /\ result.line \in GeodataLines)
              /\ result.status = "returned" => geodata = None

\* C5: when an import_bom_rf3 call has exited, by return or by a raised
\* error, no dataset handle it opened is still open.
C5_HandlesClosedOnExit ==
    (importer = "rf3" /\ pc = "exit") => open_handles = {}

\* C6: the decode table of import_aqc maps 0, 1 and 251..254 to 0.0 and 255
\* to NaN, and every output cell is the table entry of its pixel.
C6_AqcLookup ==
    (importer = "aqc" /\ result.status = "returned") =>
        /\ DOMAIN lut.val = 0..255
        /\ \A i \in {0, 1} \cup 251..254 : lut.val[i] = Zero
        /\ lut.val[255] = NaN
        /\ Shape(R.val) = Shape(B.val)
        /\ \A r \in DOMAIN B.val : \A c \in DOMAIN B.val[r] :
              /\ R.val[r][c] = lut.val[B.val[r][c]]
              /\ B.val[r][c] = 0 => R.val[r][c] = Zero
              /\ B.val[r][c] = 255 => R.val[r][c] = NaN

C6_Witness ==
    /\ importer = "aqc" /\ result.status = "returned"
    /\ B.val[1][1] = 0 /\ R.val[1][1] = Zero
    /\ B.val[1][2] = 255 /\ IsNaN(R.val[1][2])
    /\ B.val[2][1] = 100 /\ R.val[2][1].kind = "zr"

RequiredCapability ==
    CASE importer = "pgm" -> pyproj_imported
      [] importer = "aqc" -> pil_imported
      [] importer = "rf3" -> netcdf4_imported
MissingDependencyRaised ==
    /\ result.status = "raised"
    /\ result.error \in {"Exception: pyproj not imported",
                         "Exception: PIL not imported",
                         "Exception: netCDF4 not imported"}

\* C7: a call whose required package is missing raises the missing
\* dependency error without any file or dataset access.
C7_MissingDependencyBeforeAccess ==
    /\ ~RequiredCapability =>
          /\ events = <<>> /\ open_handles = {}
          /\ pc # "start" => MissingDependencyRaised
    /\ MissingDependencyRaised => ~RequiredCapability /\ events = <<>>

C7_Witness ==
    /\ ~RequiredCapability
    /\ MissingDependencyRaised
    /\ pc = "exit"

\* C8: on a malformed header the parser never returns a metadata record
\* and never reads on: every pass of its loops calls readline, readline is
\* called at most once after the last line, and the call ends in an
\* IndexError or ValueError raised by the parser.
C8_MalformedHeaderRaises ==
    (importer = "pgm" /\ ~WellFormed(lines)) =>
        /\ pos <= Len(lines) + 1
        /\ ~MetadataReturned
        /\ pc \in {"start", "metadata_open", "metadata_find",
                   "metadata_block", "metadata_missingval", "exit"}
        /\ (pc = "exit" /\ pyproj_imported) =>
              /\ result.status = "raised"
              /\ result.error \in ParseErrors
              /\ result.line \in ParseErrorLines

C8_Witness ==
    /\ importer = "pgm" /\ ~WellFormed(lines)
    /\ BlockStart(lines) # 0 /\ BlockEnd(lines) = 0
    /\ pos = Len(lines) + 1
    /\ result = Raised("IndexError", 137)

C10_ZeroTimestepSkipsRescale ==
    importer = "rf3" =>
        /\ result.error # "ZeroDivisionError"
        /\ (BothInstants /\ ElapsedMinutes(dataset.valid_time.val,
                                           dataset.start_time.val) = 0) =>
              /\ ~(result.status = "raised" /\ result.line \in DataLines)
              /\ AfterRescale => precipitation = field_read
              /\ AfterData => R = field_read

C10_Witness ==
    /\ BothInstants /\ AfterData
    /\ dataset.valid_time.val - dataset.start_time.val = 45
    /\ time_step = Val(0)
    /\ R = field_read
    /\ \E r \in DOMAIN R.val : \E c \in DOMAIN R.val[r] : R.val[r][c] = Rat(5, 1)

====
